---- MODULE Spec2Model ----
(***************************************************************************)
(* dirdups (src/src/main.rs): fingerprint every file under a root, index   *)
(* fingerprints per directory, report pairs of directories that share      *)
(* fingerprints.                                                           *)
(*                                                                         *)
(* Two specifications:                                                     *)
(*   Spec     main(): load_files_info, find_duplicates + filter, sort,     *)
(*            print_duplicates.                                            *)
(*   SpecCrc  the read loop of get_crc32_checksum, one read per step.      *)
(***************************************************************************)
EXTENDS Integers, Sequences, FiniteSets, TLC

\* ------------------------------------------------------------------ bounds
MaxFiles == 5               \* files the walker yields in one run
MaxMinIntersection == 2     \* largest --min-intersection tried

Dirs == {1, 2, 3}           \* parent directories: PathBuf, ordered as its Ord orders them
Contents == {1, 2}          \* file contents
Sizes == {500, 3000}        \* file lengths in bytes the walker reports
MinSizes == {1, 1000}       \* --min-size values (1 is the default)
HeadArgs == {0, 500}        \* --head values as parsed, before the coercion
\* inputs of the read loop taken alone
CrcHeads == {0, 1000, 1024, 1500, 2048}
CrcLens == {0, 500, 1024, 1500, 2048, 3000}
ShortRead == 512            \* a read may return fewer bytes than the buffer holds

\* --------------------------------------------------------------- constants
BUF_SIZE == 1024
HeadFloor == 1000
HeadDefault == 1024

VARIABLES
    min_size, head, min_intersection,   \* main's locals / args
    pb,                                 \* progress bar position: files consumed
    fed,                                \* the entries load_files_info is done with
    hash_dirs, dir_hashes,              \* the two maps of the index
    pc,                                 \* where main() is
    panic,                              \* "none", or which unwrap() panicked
    failed_size,                        \* size of the file whose get_hash failed
    visited,                            \* fingerprint entries find_duplicates visited
    duplicates,                         \* Vec<Duplicate> of main
    output,                             \* lines print_duplicates has printed
    read_first_bytes, file_len, file_content,  \* get_crc32_checksum's arguments
    bytes_readed, hasher, crc_pc               \* and its locals

main_vars == <<min_size, head, min_intersection, pb, fed, hash_dirs, dir_hashes,
               pc, panic, failed_size, visited, duplicates, output>>
crc_vars == <<read_first_bytes, file_len, file_content, bytes_readed, hasher, crc_pc>>
vars == <<main_vars, crc_vars>>

NoSize == -1
Files == [dir : Dirs, size : Sizes, content : Contents]
EmptyMap == <<>>

Min(a, b) == IF a < b THEN a ELSE b

\* ------------------------------------------------------------- Fingerprinter
\* crc32fast::Hasher, abstracted: the state is the content fed so far, which is
\* always a prefix of one file: <<content id, number of bytes>>.
hasher_new == <<0, 0>>

hasher_update(h, content, n) == <<content, h[2] + n>>

\* finalize(): a value below 2^32 that differs whenever the bytes fed differ
hasher_finalize(h) == h[1] * 4096 + h[2]

\* line 71: the only place read_first_bytes is looked at
head_reached(rfb, readed) == rfb > 0 /\ readed >= rfb

\* line 74 on a regular file: f.read fills the buffer, or returns what is left
\* of the file (0 at its end)
read_full(remaining) == Min(BUF_SIZE, remaining)

\* line 74 in general: a read may also return fewer bytes than asked for
read_results(remaining) ==
    {read_full(remaining)} \cup (IF remaining > ShortRead THEN {ShortRead} ELSE {})

\* lines 69-81: the loop of get_crc32_checksum when every read is a full one
RECURSIVE crc_loop(_, _, _, _, _)
crc_loop(content, len, rfb, readed, h) ==
    IF head_reached(rfb, readed) THEN [crc |-> hasher_finalize(h), readed |-> readed]
    ELSE LET n == read_full(len - readed) IN
         IF n = 0 THEN [crc |-> hasher_finalize(h), readed |-> readed]
         ELSE crc_loop(content, len, rfb, readed + n, hasher_update(h, content, n))

get_crc32_checksum(f, rfb) == crc_loop(f.content, f.size, rfb, 0, hasher_new).crc

get_hash(f, rfb) == get_crc32_checksum(f, rfb) + f.size

\* main, lines 211-216
coerce_head(h) == IF h > 0 /\ h < HeadFloor THEN HeadDefault ELSE h

\* ------------------------------------------------------- Corpus Index builder
\* variant of hash_dirs_insert: the set created on first use is left empty
hash_dirs_insert_empty_first(hd, hash, dir) ==
    IF hash \in DOMAIN hd
    THEN [hd EXCEPT ![hash] = @ \cup {dir}]
    ELSE hd @@ (hash :> {})

\* lines 120-126
hash_dirs_insert(hd, hash, dir) ==
    IF hash \in DOMAIN hd
    THEN [hd EXCEPT ![hash] = @ \cup {dir}]
    ELSE hd @@ (hash :> {dir})

\* variant of dir_hashes_insert: a directory already present keeps its old set
dir_hashes_insert_first_only(dh, dir, hash) ==
    IF dir \in DOMAIN dh THEN dh ELSE dh @@ (dir :> {hash})

\* lines 128-134
dir_hashes_insert(dh, dir, hash) ==
    IF dir \in DOMAIN dh
    THEN [dh EXCEPT ![dir] = @ \cup {hash}]
    ELSE dh @@ (dir :> {hash})

\* line 112: the file is skipped before it is ever opened
too_small(filesize, floor) == filesize < floor

\* variant of unwrap_pc: an Err is ignored and the loop goes on
unwrap_pc_ignoring(ok) == "load"

\* lines 111, 118: Result::unwrap() returns on Ok and panics on Err
unwrap_pc(ok) == IF ok THEN "load" ELSE "panicked"

\* One iteration of the loop of load_files_info on entry f. meta_ok and hash_ok
\* say whether file.metadata() and get_hash() return Ok; both are unwrap()ped.
LoadFile(f, meta_ok, hash_ok) ==
    /\ pc = "load"
    /\ pb < MaxFiles
    /\ pb' = pb + 1
    /\ IF ~meta_ok
       THEN /\ pc' = unwrap_pc(meta_ok) /\ panic' = "metadata"
            /\ UNCHANGED <<failed_size, fed, hash_dirs, dir_hashes>>
       ELSE IF too_small(f.size, min_size)
       THEN /\ fed' = fed \cup {f}
            /\ UNCHANGED <<pc, panic, failed_size, hash_dirs, dir_hashes>>
       ELSE IF ~hash_ok
       THEN /\ pc' = unwrap_pc(hash_ok) /\ panic' = "get_hash"
            /\ failed_size' = f.size
            /\ UNCHANGED <<fed, hash_dirs, dir_hashes>>
       ELSE LET hash == get_hash(f, head) IN
            /\ hash_dirs' = hash_dirs_insert(hash_dirs, hash, f.dir)
            /\ dir_hashes' = dir_hashes_insert(dir_hashes, f.dir, hash)
            /\ fed' = fed \cup {f}
            /\ UNCHANGED <<pc, panic, failed_size>>
    /\ UNCHANGED <<min_size, head, min_intersection, visited, duplicates, output>>
    /\ UNCHANGED crc_vars

\* ------------------------------------------------------------ Overlap Finder
\* variant of canonical_pair: the pair is kept in iteration order
canonical_pair_unordered(dir, prev_dir) == <<dir, prev_dir>>

\* lines 153-157
canonical_pair(dir, prev_dir) ==
    IF dir < prev_dir THEN <<dir, prev_dir>> ELSE <<prev_dir, dir>>

\* line 158
already_added(added, t) == t \in added

\* variant of make_duplicate: the two counts change places
make_duplicate_swapped(dh, dir, prev_dir) ==
    LET files == dh[dir]
        prev_files == dh[prev_dir]
    IN [dir1 |-> dir,
        dir2 |-> prev_dir,
        dir1_files_number |-> Cardinality(prev_files),
        dir2_files_number |-> Cardinality(files),
        intersection |-> Cardinality(files \cap prev_files)]

\* lines 161-170
make_duplicate(dh, dir, prev_dir) ==
    LET files == dh[dir]
        prev_files == dh[prev_dir]
    IN [dir1 |-> dir,
        dir2 |-> prev_dir,
        dir1_files_number |-> Cardinality(files),
        dir2_files_number |-> Cardinality(prev_files),
        intersection |-> Cardinality(files \cap prev_files)]

\* lines 152-175: the inner loop over the rest of one fingerprint's directories,
\* dirs_seq being the order dirs.iter() yields them in
RECURSIVE pair_loop(_, _, _, _)
pair_loop(st, dh, dirs_seq, i) ==
    IF i > Len(dirs_seq) \/ st.panicked THEN st
    ELSE LET dir == dirs_seq[i]
             t == canonical_pair(dir, st.prev_dir)
         IN IF already_added(st.added, t)
            THEN pair_loop(st, dh, dirs_seq, i + 1)
            ELSE IF dir \notin DOMAIN dh \/ st.prev_dir \notin DOMAIN dh
            THEN [st EXCEPT !.panicked = TRUE]
            ELSE pair_loop([st EXCEPT
                               !.duplicates = Append(@, make_duplicate(dh, dir, st.prev_dir)),
                               !.added = @ \cup {t},
                               !.prev_dir = dir],
                           dh, dirs_seq, i + 1)

\* lines 145-176: the outer loop, key_order being the order hash_dirs.iter()
\* yields the fingerprints in and dir_order[f] the order of hash_dirs[f].iter()
RECURSIVE fp_loop(_, _, _, _, _)
fp_loop(st, dh, key_order, dir_order, k) ==
    IF k > Len(key_order) \/ st.panicked THEN st
    ELSE LET dirs_seq == dir_order[key_order[k]] IN
         IF Len(dirs_seq) = 0 THEN st
         ELSE fp_loop(pair_loop([st EXCEPT !.prev_dir = dirs_seq[1],
                                            !.visited = @ + 1],
                                dh, dirs_seq, 2),
                      dh, key_order, dir_order, k + 1)

find_duplicates(dh, key_order, dir_order) ==
    fp_loop([duplicates |-> <<>>, added |-> {}, prev_dir |-> 0,
             visited |-> 0, panicked |-> FALSE],
            dh, key_order, dir_order, 1)

\* every order an iterator over the set S may yield its elements in
RECURSIVE Perms(_)
Perms(S) ==
    IF S = {} THEN {<<>>}
    ELSE UNION {{<<x>> \o p : p \in Perms(S \ {x})} : x \in S}

\* one iteration order for each set of the map hd
RECURSIVE DirOrdersOn(_, _)
DirOrdersOn(hd, keys) ==
    IF keys = {} THEN {EmptyMap}
    ELSE LET k == CHOOSE x \in keys : TRUE IN
         {(k :> p) @@ g : p \in Perms(hd[k]), g \in DirOrdersOn(hd, keys \ {k})}

DirOrders(hd) == DirOrdersOn(hd, DOMAIN hd)

\* ---------------------------------------------------------- Ranker / Reporter
\* variant of passes: the comparison is inverted
passes_inverted(x, threshold) == x.intersection <= threshold

\* line 226
passes(x, threshold) == x.intersection >= threshold

filter_duplicates(dups, threshold) == SelectSeq(dups, LAMBDA x : passes(x, threshold))

\* variant of sorts_before: ascending, the Reverse forgotten
sorts_before_ascending(x, y) == x.intersection <= y.intersection

\* line 229: sort_by_key(|x| Reverse(x.intersection)), a stable sort
sorts_before(x, y) == x.intersection >= y.intersection

RECURSIVE insert_sorted(_, _)
insert_sorted(sorted, x) ==
    IF sorted = <<>> THEN <<x>>
    ELSE LET last == sorted[Len(sorted)] IN
         IF sorts_before(last, x) THEN Append(sorted, x)
         ELSE Append(insert_sorted(SubSeq(sorted, 1, Len(sorted) - 1), x), last)

RECURSIVE sort_prefix(_, _)
sort_prefix(s, n) ==
    IF n = 0 THEN <<>> ELSE insert_sorted(sort_prefix(s, n - 1), s[n])

sort_by_key(s) == sort_prefix(s, Len(s))

\* lines 182-189: the fields of one printed line, in the order printed
print_line(d) ==
    <<d.dir1, d.dir1_files_number, d.dir2, d.dir2_files_number, d.intersection>>

\* lines 224-227, run once the walker is exhausted
FindAndFilter ==
    /\ pc = "load"
    /\ \E key_order \in Perms(DOMAIN hash_dirs) :
       \E dir_order \in DirOrders(hash_dirs) :
          LET r == find_duplicates(dir_hashes, key_order, dir_order) IN
          /\ visited' = r.visited
          /\ IF r.panicked
             THEN /\ pc' = "panicked" /\ panic' = "dir_hashes_get"
                  /\ UNCHANGED duplicates
             ELSE /\ pc' = "filtered"
                  /\ duplicates' = filter_duplicates(r.duplicates, min_intersection)
                  /\ UNCHANGED panic
    /\ UNCHANGED <<min_size, head, min_intersection, pb, fed, hash_dirs, dir_hashes,
                   failed_size, output>>
    /\ UNCHANGED crc_vars

\* line 229
SortDuplicates ==
    /\ pc = "filtered"
    /\ duplicates' = sort_by_key(duplicates)
    /\ pc' = "sorted"
    /\ UNCHANGED <<min_size, head, min_intersection, pb, fed, hash_dirs, dir_hashes,
                   panic, failed_size, visited, output>>
    /\ UNCHANGED crc_vars

\* line 231
PrintDuplicates ==
    /\ pc = "sorted"
    /\ output' = [i \in 1..Len(duplicates) |-> print_line(duplicates[i])]
    /\ pc' = "printed"
    /\ UNCHANGED <<min_size, head, min_intersection, pb, fed, hash_dirs, dir_hashes,
                   panic, failed_size, visited, duplicates>>
    /\ UNCHANGED crc_vars

\* ------------------------------------------------------------------- main()
CrcIdle ==
    /\ read_first_bytes = 0 /\ file_len = 0 /\ file_content = 0
    /\ bytes_readed = 0 /\ hasher = hasher_new /\ crc_pc = "idle"

Init ==
    /\ min_size \in MinSizes
    /\ head \in {coerce_head(h) : h \in HeadArgs}
    /\ min_intersection \in 0..MaxMinIntersection
    /\ pb = 0
    /\ fed = {}
    /\ hash_dirs = EmptyMap
    /\ dir_hashes = EmptyMap
    /\ pc = "load"
    /\ panic = "none"
    /\ failed_size = NoSize
    /\ visited = 0
    /\ duplicates = <<>>
    /\ output = <<>>
    /\ CrcIdle

Next ==
    \/ \E f \in Files : \E meta_ok \in BOOLEAN : \E hash_ok \in BOOLEAN :
          LoadFile(f, meta_ok, hash_ok)
    \/ FindAndFilter
    \/ SortDuplicates
    \/ PrintDuplicates

Spec == Init /\ [][Next]_vars

\* ------------------------------------------- get_crc32_checksum, read by read
InitCrc ==
    /\ min_size = 1 /\ head = 0 /\ min_intersection = 0
    /\ pb = 0 /\ fed = {} /\ hash_dirs = EmptyMap /\ dir_hashes = EmptyMap
    /\ pc = "crc" /\ panic = "none" /\ failed_size = NoSize /\ visited = 0
    /\ duplicates = <<>> /\ output = <<>>
    /\ read_first_bytes \in CrcHeads
    /\ file_len \in CrcLens
    /\ file_content \in Contents
    /\ bytes_readed = 0
    /\ hasher = hasher_new
    /\ crc_pc = "open"

\* line 64
CrcOpen(ok) ==
    /\ crc_pc = "open"
    /\ crc_pc' = IF ok THEN "loop" ELSE "err"
    /\ UNCHANGED <<read_first_bytes, file_len, file_content, bytes_readed, hasher>>
    /\ UNCHANGED main_vars

\* lines 71-73
CrcBreak ==
    /\ crc_pc = "loop"
    /\ head_reached(read_first_bytes, bytes_readed)
    /\ crc_pc' = "done"
    /\ UNCHANGED <<read_first_bytes, file_len, file_content, bytes_readed, hasher>>
    /\ UNCHANGED main_vars

\* lines 74-79, f.read returning Ok(n)
CrcRead(n) ==
    /\ crc_pc = "loop"
    /\ ~head_reached(read_first_bytes, bytes_readed)
    /\ n \in read_results(file_len - bytes_readed)
    /\ IF n = 0
       THEN /\ crc_pc' = "done"
            /\ UNCHANGED <<bytes_readed, hasher>>
       ELSE /\ hasher' = hasher_update(hasher, file_content, n)
            /\ bytes_readed' = bytes_readed + n
            /\ UNCHANGED crc_pc
    /\ UNCHANGED <<read_first_bytes, file_len, file_content>>
    /\ UNCHANGED main_vars

\* line 74, f.read returning Err
CrcReadErr ==
    /\ crc_pc = "loop"
    /\ ~head_reached(read_first_bytes, bytes_readed)
    /\ crc_pc' = "err"
    /\ UNCHANGED <<read_first_bytes, file_len, file_content, bytes_readed, hasher>>
    /\ UNCHANGED main_vars

NextCrc ==
    \/ \E ok \in BOOLEAN : CrcOpen(ok)
    \/ CrcBreak
    \/ \E n \in 0..BUF_SIZE : CrcRead(n)
    \/ CrcReadErr

SpecCrc == InitCrc /\ [][NextCrc]_vars

\* ================================================================== claims
Reported == pc \in {"filtered", "sorted", "printed"}

Entries == {duplicates[i] : i \in 1..Len(duplicates)}

PairOf(e) == {e.dir1, e.dir2}

Inter(d1, d2) == Cardinality(dir_hashes[d1] \cap dir_hashes[d2])

TimesReported(d1, d2) ==
    Cardinality({i \in 1..Len(duplicates) : PairOf(duplicates[i]) = {d1, d2}})

\* C1: once the candidates are filtered, every pair of distinct directories whose
\* fingerprint sets share at least one fingerprint and at least min_intersection
\* fingerprints is in the reported list exactly once.
C1_EveryPairExactlyOnce ==
    Reported =>
        \A d1 \in DOMAIN dir_hashes : \A d2 \in DOMAIN dir_hashes :
            (d1 < d2 /\ Inter(d1, d2) >= 1 /\ Inter(d1, d2) >= min_intersection)
                => TimesReported(d1, d2) = 1

\* C2: no unordered directory pair occurs at two positions of the list, neither
\* in the same orientation nor as (A,B) and (B,A).
C2_NoPairTwice ==
    \A i \in 1..Len(duplicates) : \A j \in 1..Len(duplicates) :
        i # j => PairOf(duplicates[i]) # PairOf(duplicates[j])

C2_Witness ==
    /\ pc = "filtered"
    /\ \E e \in Entries : e.intersection >= 2 /\ e.dir1 > e.dir2
    /\ Len(duplicates) >= 2

\* the index and the report of one fixed run over the same files: the
\* fingerprints and the directories of every set iterated in increasing order
Indexed == {f \in fed : ~too_small(f.size, min_size)}

RefHashes == {get_hash(f, head) : f \in Indexed}

RefHashDirs == [h \in RefHashes |-> {f.dir : f \in {g \in Indexed : get_hash(g, head) = h}}]

RefDirHashes ==
    [d \in {f.dir : f \in Indexed} |->
        {get_hash(f, head) : f \in {g \in Indexed : g.dir = d}}]

RECURSIVE SortedSeq(_)
SortedSeq(S) ==
    IF S = {} THEN <<>>
    ELSE LET m == CHOOSE x \in S : \A y \in S : x <= y IN <<m>> \o SortedSeq(S \ {m})

RefReport ==
    filter_duplicates(
        find_duplicates(RefDirHashes, SortedSeq(RefHashes),
                        [h \in RefHashes |-> SortedSeq(RefHashDirs[h])]).duplicates,
        min_intersection)

CandidateSet(s) ==
    {<<PairOf(s[i]),
       {<<s[i].dir1, s[i].dir1_files_number>>, <<s[i].dir2, s[i].dir2_files_number>>},
       s[i].intersection>> : i \in 1..Len(s)}

\* C3: the set of reported candidates (unordered pair, the two counts, the
\* intersection) is the one every other run over the same files reports, whatever
\* the order the files were fed in and the maps and sets were iterated in.
C3_SameSetForEveryOrder ==
    Reported => CandidateSet(duplicates) = CandidateSet(RefReport)

\* C4: at the end of every iteration of load_files_info, and ever after, d is in
\* hash_dirs[f] exactly when f is in dir_hashes[d].
C4_CrossConsistent ==
    LET fs == DOMAIN hash_dirs \cup UNION {dir_hashes[d] : d \in DOMAIN dir_hashes}
        ds == DOMAIN dir_hashes \cup UNION {hash_dirs[f] : f \in DOMAIN hash_dirs}
    IN \A d \in ds : \A f \in fs :
           (f \in DOMAIN hash_dirs /\ d \in hash_dirs[f])
               <=> (d \in DOMAIN dir_hashes /\ f \in dir_hashes[d])

C4_Witness ==
    /\ pc = "load"
    /\ \E d \in DOMAIN dir_hashes : Cardinality(dir_hashes[d]) >= 2
    /\ \E f \in DOMAIN hash_dirs : Cardinality(hash_dirs[f]) >= 2

\* C5: every candidate carries the exact size of the intersection of its two
\* directories' fingerprint sets and, with each directory, that directory's own
\* number of fingerprints; so 0 <= intersection <= min of the two counts.
C5_ExactCounts ==
    \A e \in Entries :
        /\ e.dir1 \in DOMAIN dir_hashes /\ e.dir2 \in DOMAIN dir_hashes
        /\ e.intersection = Cardinality(dir_hashes[e.dir1] \cap dir_hashes[e.dir2])
        /\ e.dir1_files_number = Cardinality(dir_hashes[e.dir1])
        /\ e.dir2_files_number = Cardinality(dir_hashes[e.dir2])
        /\ 0 <= e.intersection
        /\ e.intersection <= Min(e.dir1_files_number, e.dir2_files_number)

C5_Witness ==
    /\ pc = "filtered"
    /\ \E e \in Entries :
          /\ e.dir1_files_number # e.dir2_files_number
          /\ e.intersection >= 1
          /\ e.intersection < Min(e.dir1_files_number, e.dir2_files_number)

\* C6: no candidate handed to print_duplicates, and no printed line, has an
\* intersection below min_intersection.
C6_ThresholdKept ==
    /\ \A e \in Entries : e.intersection >= min_intersection
    /\ \A i \in 1..Len(output) : output[i][5] >= min_intersection

C6_Witness ==
    /\ pc = "printed"
    /\ output # <<>>
    /\ \E d1 \in DOMAIN dir_hashes : \E d2 \in DOMAIN dir_hashes :
          d1 # d2 /\ Inter(d1, d2) >= 1 /\ Inter(d1, d2) < min_intersection

BagOf(s) ==
    [x \in {s[i] : i \in 1..Len(s)} |-> Cardinality({i \in 1..Len(s) : s[i] = x})]

SortedDescending ==
    /\ pc \in {"sorted", "printed"} =>
          \A i \in 1..Len(duplicates) : \A j \in 1..Len(duplicates) :
              i < j => duplicates[i].intersection >= duplicates[j].intersection
    /\ \A i \in 1..Len(output) : \A j \in 1..Len(output) :
          i < j => output[i][5] >= output[j][5]
    /\ pc = "printed" =>
          output = [i \in 1..Len(duplicates) |-> print_line(duplicates[i])]

SortKeepsCandidates ==
    (pc = "filtered" /\ pc' = "sorted") => BagOf(duplicates') = BagOf(duplicates)

\* C7: the printed records are in non-increasing order of intersection, and the
\* sort step keeps every filtered candidate, each as often as it was there.
C7_SortedOutput == []SortedDescending /\ [][SortKeepsCandidates]_vars

C7_Witness ==
    /\ pc = "printed"
    /\ Len(output) >= 2
    /\ output[1][5] > output[Len(output)][5]

\* C8: when the read loop has ended, a head limit H > 0 means at most H bytes
\* went into the checksum, and H = 0 means the whole file did.
C8_AtMostHeadBytes ==
    crc_pc = "done" =>
        /\ read_first_bytes > 0 => bytes_readed <= read_first_bytes
        /\ read_first_bytes = 0 => bytes_readed = file_len

NothingRunsAfterPanic == pc = "panicked" => UNCHANGED vars

FailedRunReportsNothing ==
    /\ panic = "get_hash" =>
          /\ pc = "panicked"
          /\ failed_size # NoSize
          /\ ~too_small(failed_size, min_size)
    /\ failed_size # NoSize => pc = "panicked"
    /\ pc = "panicked" => (visited = 0 /\ duplicates = <<>> /\ output = <<>>)

\* C9: a failed fingerprinting of a file of size >= min_size stops the run at
\* that file: nothing changes afterwards, find_duplicates has not run and nothing
\* is printed; a file below min_size never is the file that failed.
C9_AbortOnIoError == []FailedRunReportsNothing /\ [][NothingRunsAfterPanic]_vars

C9_Witness ==
    /\ panic = "get_hash"
    /\ DOMAIN dir_hashes # {}
    /\ \E g \in fed : too_small(g.size, min_size)
    /\ pb < MaxFiles

\* C10: every fingerprint of the index has a non-empty directory set and every
\* directory in such a set is a key of dir_hashes, so find_duplicates visits every
\* fingerprint entry and its unwrap()s never panic.
C10_FindVisitsAll ==
    /\ \A f \in DOMAIN hash_dirs :
          /\ hash_dirs[f] # {}
          /\ hash_dirs[f] \subseteq DOMAIN dir_hashes
    /\ panic # "dir_hashes_get"
    /\ Reported => visited = Cardinality(DOMAIN hash_dirs)

C10_Witness ==
    /\ pc = "filtered"
    /\ visited >= 3
    /\ \E f \in DOMAIN hash_dirs : Cardinality(hash_dirs[f]) = 1
    /\ \E f \in DOMAIN hash_dirs : Cardinality(hash_dirs[f]) >= 2

====
